---- MODULE Spec2Model ----
(***************************************************************************)
(* Question-answering orchestration of glut-ai-microservice:               *)
(*   app/services/document_service.py  (per-document indexer)              *)
(*   app/services/rag_service.py       (knowledge base, router, workflow)  *)
(*   app/utils/document_utils.py       (maintenance of the documents)      *)
(* Strings the code inspects character by character are tuples of          *)
(* one-character strings; a FAISS store is the record of its embedding     *)
(* dimension and of the documents merged into it, in merge order.          *)
(***************************************************************************)
EXTENDS Integers, Sequences, FiniteSets, TLC

VARIABLES
    status,         \* documents collection: the status field of each record
    disk,           \* vectorstores/vectorstore_<id>: what is on disk for each id
    ing,            \* process_pdf invocations
    retriever,      \* RAGService.retriever of the service instance
    call,           \* process_question / update_knowledge_base invocations
    installed,      \* history: the store the last finished rebuild made the retriever
    everProcessed,  \* history: the ids that ever had a record with status processed
    builds,         \* history: the retriever the last rebuild over the data as it is left
    msg,            \* MessageService: the messages collection, the cache, the calls
    usr,            \* UserService: the users collection, the cache, the calls
    ub              \* UserBrandService: a user's associations, the cache, the calls

vars == <<status, disk, ing, retriever, call, installed, everProcessed, builds, msg, usr, ub>>

(* ------------------------------ bounds --------------------------------- *)

MaxIngest == 1
MaxCallers == 1
MaxAskers == 1
MaxRaw == 5
ChunksPerDoc == 2
MaxMessages == 2
MaxUsers == 2
MaxText == 7
MaxUserCalls == 2
MaxBrands == 2

(* --------------------------- program constants ------------------------- *)

RAG_TOP_K == 3

(* ------------------------------- universe ------------------------------ *)

\* One record is in the collection before the service starts; process_pdf adds the rest.
SeedDocs == {1}
MaxDocs == Cardinality(SeedDocs) + MaxIngest
Docs == 1..MaxDocs
Ingests == 1..MaxIngest
\* Callers call update_knowledge_base, askers call process_question, on one service.
Callers == 1..MaxCallers
Askers == (MaxCallers + 1)..(MaxCallers + MaxAskers)
Procs == Callers \cup Askers
Questions == {1, 2}

Statuses == {"pending", "processing", "processed", "failed"}

\* What process_pdf is given: a readable PDF or bytes PDFPlumberLoader cannot read.
Files == {"valid", "corrupt"}

\* vectorstores/vectorstore_<id>: no directory, a directory FAISS.load_local cannot
\* read, or an index saved with embeddings of one of two dimensions.
DiskStates == {"none", "corrupt", "dimA", "dimB"}

\* The embedding dimension of settings.EMBEDDINGS_MODEL as configured now.
CurrentDim == "dimA"

\* The record and the directory of the document that is there at start.
SeedStates ==
    {<<s, "dimA">> : s \in Statuses} \cup {<<"processed", k>> : k \in {"corrupt", "dimB"}}

(* ------------------------------ FAISS stores --------------------------- *)

NoStore == [dim |-> "none", docs |-> <<>>]
NoRetriever == [dim |-> "none", docs |-> <<>>, k |-> 0]

\* FAISS.load_local of a saved index: one store holding that document's chunks.
Loaded(d) == [dim |-> disk[d], docs |-> <<d>>]

\* LoadFails with a fault: whatever is in the directory is loaded.
LoadFailsWhenMissing(d) == disk[d] = "none"

\* load_vectorstore raises: the path is missing (ValidationError) or load_local fails.
LoadFails(d) == disk[d] \in {"none", "corrupt"}

LoadError(d) == IF disk[d] = "none" THEN "ValidationError" ELSE "Exception"

\* FAISS.merge_from raises when the two indexes differ in dimension.
MergeFails(comb, vs) == comb.dim # vs.dim

\* MergeFrom with a fault: the chunks of the other store are not added.
MergeKeepsOwn(comb, vs) == comb

\* FAISS.merge_from: the other store's chunks are added after the store's own.
MergeFrom(comb, vs) == [dim |-> comb.dim, docs |-> comb.docs \o vs.docs]

\* AsRetriever with a fault: search_kwargs is dropped, the retriever has its default k.
AsRetrieverDefault(store, k) == [dim |-> store.dim, docs |-> store.docs, k |-> 4]

\* as_retriever(search_kwargs={"k": k})
AsRetriever(store, k) == [dim |-> store.dim, docs |-> store.docs, k |-> k]

StoreOf(r) == [dim |-> r.dim, docs |-> r.docs]

\* The chunks of one document, in split order, and of a store, in merge order.
ChunksOfDoc(d) == [j \in 1..ChunksPerDoc |-> <<d, j>>]

RECURSIVE ChunksOf(_)
ChunksOf(ds) == IF ds = <<>> THEN <<>> ELSE ChunksOfDoc(Head(ds)) \o ChunksOf(Tail(ds))

\* The embedder's distance between a question and a chunk (a fixed table).
Dist(q, ch) == (ch[1] + ch[2] + q) % 3

Min(x, y) == IF x <= y THEN x ELSE y

\* Chunk j is nearer to the question than chunk i, or as near and earlier in the index.
Nearer(cs, q, j, i) ==
    \/ Dist(q, cs[j]) < Dist(q, cs[i])
    \/ Dist(q, cs[j]) = Dist(q, cs[i]) /\ j < i

\* The number of chunks that come before chunk i in a search for q.
Rank(cs, q, i) == Cardinality({j \in 1..Len(cs) : Nearer(cs, q, j, i)})

\* similarity_search with k: the k nearest chunks, the nearest first.
TopK(cs, q, k) ==
    [n \in 1..Min(k, Len(cs)) |-> cs[CHOOSE i \in 1..Len(cs) : Rank(cs, q, i) = n - 1]]

\* retriever.invoke(question): the k nearest chunks of the combined index.
Retrieve(r, q) == TopK(ChunksOf(r.docs), q, r.k)

(* --------------------------- documents collection ---------------------- *)

AllIds == [i \in 1..MaxDocs |-> i]

IsProcessed(d) == status[d] = "processed"

HasRecord(d) == status[d] \in Statuses

\* FindProcessed with a fault: find() without the status filter.
FindAll == SelectSeq(AllIds, HasRecord)

\* find({"status": "processed"}).to_list(): the ids, in insertion order.
FindProcessed == SelectSeq(AllIds, IsProcessed)

\* insert_one gives the record an id no record had before.
FreshIds == {d \in Docs : status[d] = "absent"}
NewId == CHOOSE d \in FreshIds : \A e \in FreshIds : d <= e

(* ------------------------------ process_pdf ---------------------------- *)

IdleIngest == [pc |-> "idle", file |-> "-", doc |-> 0, inner |-> "none", err |-> "none", cause |-> "none"]

\* process_pdf's except clause: whatever was raised leaves as ValidationError.
ProcessPdfRaise(e) == "ValidationError"

\* The status _store_document writes into the new record.
StoredStatus == "processed"

\* What a rebuild in progress and the rebuild history see of a change of the data.
Touched(cs) ==
    [c \in Procs |-> IF cs[c].kb.pc = "loop" THEN [cs[c] EXCEPT !.kb.clean = FALSE] ELSE cs[c]]

IngestFail(i, inner, cause) ==
    ing' = [ing EXCEPT ![i].pc = "raised", ![i].inner = inner,
                       ![i].err = ProcessPdfRaise(inner), ![i].cause = cause]

\* Lines 47-61: the upload is written out, read, split and embedded.
IngestExtract(i, f) ==
    /\ ing[i].pc = "idle"
    /\ \/ /\ f = "corrupt"
          /\ ing' = [ing EXCEPT ![i].pc = "raised", ![i].file = f, ![i].inner = "Exception",
                                ![i].err = ProcessPdfRaise("Exception"), ![i].cause = "extract"]
       \/ /\ f = "valid"
          /\ \/ ing' = [ing EXCEPT ![i].pc = "extracted", ![i].file = f]
             \/ ing' = [ing EXCEPT ![i].pc = "raised", ![i].file = f, ![i].inner = "Exception",
                                   ![i].err = ProcessPdfRaise("Exception"), ![i].cause = "embed"]
    /\ UNCHANGED <<status, disk, retriever, call, installed, everProcessed, builds, msg, usr, ub>>

\* Lines 64-74 and _store_document: the record is inserted.
IngestStore(i) ==
    /\ ing[i].pc = "extracted"
    /\ \/ /\ FreshIds # {}
          /\ status' = [status EXCEPT ![NewId] = StoredStatus]
          /\ everProcessed' = everProcessed \cup (IF StoredStatus = "processed" THEN {NewId} ELSE {})
          /\ ing' = [ing EXCEPT ![i].pc = "stored", ![i].doc = NewId]
          /\ call' = Touched(call)
          /\ builds' = <<>>
       \/ /\ IngestFail(i, "DatabaseError", "store")
          /\ UNCHANGED <<status, everProcessed, call, builds, msg, usr, ub>>
    /\ UNCHANGED <<disk, retriever, installed, msg, usr, ub>>

\* What a failed save_local leaves of the directory.
FailedSaveLeaves == {"none", "corrupt"}

\* The record's status once save_vectorstore has raised.
StatusAfterSaveFailure(old) == old

\* save_local under way as another process sees it: the directory is there, the
\* files of the index are not whole.
IngestSaveBegin(i) ==
    /\ ing[i].pc = "stored"
    /\ disk' = [disk EXCEPT ![ing[i].doc] = "corrupt"]
    /\ ing' = [ing EXCEPT ![i].pc = "saving"]
    /\ call' = Touched(call)
    /\ builds' = <<>>
    /\ UNCHANGED <<status, retriever, installed, everProcessed, msg, usr, ub>>

\* Line 77 and save_vectorstore: the index is written under the record's id.
IngestSave(i) ==
    /\ ing[i].pc \in {"stored", "saving"}
    /\ \/ /\ disk' = [disk EXCEPT ![ing[i].doc] = CurrentDim]
          /\ ing' = [ing EXCEPT ![i].pc = "returned"]
          /\ status' = status
       \/ /\ \E left \in FailedSaveLeaves : disk' = [disk EXCEPT ![ing[i].doc] = left]
          /\ IngestFail(i, "DatabaseError", "save")
          /\ status' = [status EXCEPT ![ing[i].doc] = StatusAfterSaveFailure(@)]
    /\ call' = Touched(call)
    /\ builds' = <<>>
    /\ UNCHANGED <<retriever, installed, everProcessed, msg, usr, ub>>

(* --------------------------- maintenance of records -------------------- *)

\* cleanup_failed_documents: delete_many of the failed records past the cutoff.
CleanupFailed ==
    /\ \E d \in Docs : status[d] = "failed"
    /\ status' = [d \in Docs |-> IF status[d] = "failed" THEN "deleted" ELSE status[d]]
    /\ call' = Touched(call)
    /\ builds' = <<>>
    /\ UNCHANGED <<disk, ing, retriever, installed, everProcessed, msg, usr, ub>>

\* reprocess_failed_documents: update_many of the failed records to pending.
ReprocessFailed ==
    /\ \E d \in Docs : status[d] = "failed"
    /\ status' = [d \in Docs |-> IF status[d] = "failed" THEN "pending" ELSE status[d]]
    /\ call' = Touched(call)
    /\ builds' = <<>>
    /\ UNCHANGED <<disk, ing, retriever, installed, everProcessed, msg, usr, ub>>

\* A processed record is deleted by the collaborator that owns deletion; its
\* directory stays.
DeleteDocument(d) ==
    /\ status[d] = "processed"
    /\ status' = [status EXCEPT ![d] = "deleted"]
    /\ call' = Touched(call)
    /\ builds' = <<>>
    /\ UNCHANGED <<disk, ing, retriever, installed, everProcessed, msg, usr, ub>>


(* ------------------------- update_knowledge_base ----------------------- *)

IdleKB ==
    [pc |-> "idle", docs |-> <<>>, comb |-> NoStore, ok |-> {}, skipped |-> {},
     err |-> "none", clean |-> TRUE, prev |-> <<>>, result |-> NoRetriever]

\* AgentState as process_question builds it (lines 277-284).
InitialState(q) ==
    [question |-> q, context |-> <<>>, sql_query |-> <<>>, result |-> "", answer |-> "",
     decision |-> <<>>]

NoReturn == [answer |-> "", decision |-> <<>>]

\* history of an invocation: asked is the question it was called with, outs the
\* texts the generator returned to its nodes, ctx the context of the rag prompt,
\* ran what the query tool was given and returned, told what the last prompt held.
NoInputs == [question |-> 0, sql_query |-> <<>>, result |-> ""]

IdleCall ==
    [op |-> "none", pc |-> "idle", st |-> InitialState(0), raw |-> <<>>, err |-> "none",
     cause |-> "none", trace |-> <<>>, kb |-> IdleKB, nRebuild |-> 0, nRetrieve |-> 0,
     nGenerate |-> 0, seen |-> NoStore, whole |-> NoStore, ret |-> NoReturn,
     asked |-> 0, outs |-> <<>>, ctx |-> <<>>, ran |-> <<>>, told |-> NoInputs]

\* A rebuild returns: what the one before it left, over the same data, and what it leaves.
Finished(k, r) == [k EXCEPT !.pc = "returned", !.prev = IF k.clean THEN builds ELSE <<>>, !.result = r]

\* The rebuild of caller c moves to k; a direct call of update_knowledge_base ends with it.
SetKB(c, k) ==
    LET ends == call[c].op = "rebuild" /\ k.pc \in {"returned", "raised"}
    IN  [call EXCEPT ![c].kb = k,
                     ![c].pc = IF ends THEN k.pc ELSE @,
                     ![c].err = IF ends THEN k.err ELSE @]

\* Lines 307-312: the processed records are listed; none ends the rebuild.
KBList(c) ==
    LET k == call[c].kb
        documents == FindProcessed
    IN  /\ k.pc = "list"
        /\ \/ /\ call' = SetKB(c, [k EXCEPT !.pc = "raised", !.err = "Exception"])
              /\ builds' = builds
           \/ /\ documents = <<>>
              /\ call' = SetKB(c, Finished([k EXCEPT !.clean = TRUE], retriever))
              /\ builds' = <<retriever>>
           \/ /\ documents # <<>>
              /\ call' = SetKB(c, [k EXCEPT !.pc = "loop", !.docs = documents, !.clean = TRUE])
              /\ builds' = builds
        /\ UNCHANGED <<status, disk, ing, retriever, installed, everProcessed, msg, usr, ub>>

\* LoopFailure with a fault: the exception leaves the loop and the rebuild.
AbortOnFailure(k, d) ==
    [k EXCEPT !.pc = "raised", !.err = "Exception", !.skipped = @ \cup {d}]

\* Lines 336-341: the except clause of the loop logs and continues.
LoopFailure(k, d) == [k EXCEPT !.docs = Tail(@), !.skipped = @ \cup {d}]

\* FirstStore with a fault: the loaded stores are merged into the installed one.
MergeIntoInstalled(old, vs) ==
    IF old = NoRetriever THEN vs ELSE MergeFrom(StoreOf(old), vs)

\* Lines 326-327: the first store loaded becomes the combined store.
FirstStore(old, vs) == vs

\* RetrieverWhileMerging with a fault: the retriever follows the store being merged.
RetrieverOnEachMerge(old, comb) == AsRetriever(comb, RAG_TOP_K)

\* Lines 318-341 do not assign self.retriever.
RetrieverWhileMerging(old, comb) == old

\* Lines 318-334: one document of the loop is loaded and merged.
KBLoad(c) ==
    LET k == call[c].kb
        d == Head(k.docs)
        vs == Loaded(d)
        fails == LoadFails(d) \/ (k.comb # NoStore /\ MergeFails(k.comb, vs))
        comb == IF k.comb = NoStore THEN FirstStore(retriever, vs) ELSE MergeFrom(k.comb, vs)
    IN  /\ k.pc = "loop"
        /\ k.docs # <<>>
        /\ IF fails
           THEN /\ call' = SetKB(c, LoopFailure(k, d))
                /\ retriever' = retriever
           ELSE /\ call' = SetKB(c, [k EXCEPT !.docs = Tail(@), !.comb = comb, !.ok = @ \cup {d}])
                /\ retriever' = RetrieverWhileMerging(retriever, comb)
        /\ UNCHANGED <<status, disk, ing, installed, everProcessed, builds, msg, usr, ub>>

\* NothingLoaded with a fault: a rebuild that loaded nothing resets the retriever.
ResetWhenNothingLoaded(old) == NoRetriever

\* Lines 352-353: with no combined store the retriever is not assigned.
NothingLoaded(old) == old

\* Lines 343-353: the combined store, if any, becomes the retriever.
KBPublish(c) ==
    LET k == call[c].kb
    IN  /\ k.pc = "loop"
        /\ k.docs = <<>>
        /\ retriever' = IF k.comb # NoStore THEN AsRetriever(k.comb, RAG_TOP_K)
                        ELSE NothingLoaded(retriever)
        /\ installed' = IF k.comb # NoStore THEN k.comb ELSE installed
        /\ call' = SetKB(c, Finished(k, retriever'))
        /\ builds' = IF k.clean THEN <<retriever'>> ELSE <<>>
        /\ UNCHANGED <<status, disk, ing, everProcessed, msg, usr, ub>>

\* update_knowledge_base() called on the service (documents.py line 49).
RebuildStart(c) ==
    /\ call[c].op = "none"
    /\ call' = [call EXCEPT ![c] = [IdleCall EXCEPT !.op = "rebuild",
                                                   !.pc = "update_knowledge_base",
                                                   !.kb.pc = "list", !.nRebuild = 1]]
    /\ UNCHANGED <<status, disk, ing, retriever, installed, everProcessed, builds, msg, usr, ub>>

\* RAGService(db): a new instance, with no retriever (line 40).
NewService ==
    /\ retriever # NoRetriever
    /\ \A c \in Procs : call[c].op = "none"
    /\ retriever' = NoRetriever
    /\ installed' = NoStore
    /\ builds' = <<>>
    /\ UNCHANGED <<status, disk, ing, call, everProcessed, msg, usr, ub>>

(* --------------------------------- router ------------------------------ *)

Whitespace == {" ", "\n"}
Chars == {" ", "\n", "r", "R", "a", "g", "s", "q", "l"}

RagLabel == <<"r", "a", "g">>
SqlLabel == <<"s", "q", "l">>
Labels == {RagLabel, SqlLabel}

\* str.lower() on the characters of the model.
Lower(ch) == CASE ch = "R" -> "r" [] ch = "S" -> "s" [] OTHER -> ch

LowerStr(s) == [i \in 1..Len(s) |-> Lower(s[i])]

RECURSIVE LStrip(_)
LStrip(s) == IF s # <<>> /\ Head(s) \in Whitespace THEN LStrip(Tail(s)) ELSE s

RECURSIVE RStrip(_)
RStrip(s) == IF s # <<>> /\ s[Len(s)] \in Whitespace THEN RStrip(SubSeq(s, 1, Len(s) - 1)) ELSE s

\* str.strip()
Strip(s) == RStrip(LStrip(s))

\* Normalize with a fault: the text is lowered and not stripped.
NormalizeNoStrip(raw) == LowerStr(raw)

\* Line 86: .strip().lower() of the classifier's text.
Normalize(raw) == LowerStr(Strip(raw))

\* Every text of at most MaxRaw characters.
AllOutputs == UNION {[1..n -> Chars] : n \in 0..MaxRaw}

\* The classifier's texts in the runs of the whole workflow.
ClassifierOutputs == {<<"r", "a", "g">>, <<" ", "S", "q", "l", "\n">>, <<"x">>}


(* ------------------------------- sql cleaning -------------------------- *)

\* The backquote of a code fence, written "^" here.
Tick == "^"
Fence == <<Tick, Tick, Tick>>
FenceSql == Fence \o <<"s", "q", "l">>

Drop(s, n) == SubSeq(s, n + 1, Len(s))

StartsWith(s, p) == Len(s) >= Len(p) /\ SubSeq(s, 1, Len(p)) = p

\* The length of the run of whitespace s starts with (the greedy whitespace of the pattern).
RECURSIVE WsRun(_)
WsRun(s) == IF s # <<>> /\ Head(s) \in Whitespace THEN 1 + WsRun(Tail(s)) ELSE 0

\* re.sub of line 220: a fence with sql and the whitespace after it, or whitespace and
\* a fence, is deleted; leftmost matches, the first alternative first.
RECURSIVE ReSub(_)
ReSub(s) ==
    IF s = <<>> THEN <<>>
    ELSE IF StartsWith(s, FenceSql)
         THEN ReSub(Drop(s, Len(FenceSql) + WsRun(Drop(s, Len(FenceSql)))))
         ELSE IF StartsWith(Drop(s, WsRun(s)), Fence)
              THEN ReSub(Drop(s, WsRun(s) + Len(Fence)))
              ELSE <<Head(s)>> \o ReSub(Tail(s))

\* _clean_sql_query
CleanSqlQuery(query) == Strip(ReSub(query))

\* The query generator's texts in the runs of the whole workflow.
SqlOutputs ==
    {Fence \o <<"s", "q", "l", "\n", "q", "\n">> \o Fence, <<"q", " ", "l">>}

\* Every text of at most MaxText characters a query may be fenced and written with.
CleanChars == {Tick, " ", "s", "q", "l"}
AllTexts == UNION {[1..n -> CleanChars] : n \in 0..MaxText}

\* The texts QuerySQLDataBaseTool returns and the generator answers with.
Results == {"rows", "no rows"}
Answers == {"a1", "a2"}

(* -------------------------------- workflow ----------------------------- *)

\* Route with a fault: the two branches exchanged.
RouteSwapped(decision) == IF decision = RagLabel THEN "write_query" ELSE "rag_node"

\* The conditional edges of "decider" (lines 241-248).
Route(decision) == IF decision = RagLabel THEN "rag_node" ELSE "write_query"

\* NextNode with a fault: a failed execution is sent back to the query writer.
NextNodeCycle(n) ==
    CASE n = "write_query" -> "execute_query"
      [] n = "execute_query" -> "write_query"
      [] n = "rag_node" -> "END"
      [] n = "generate_sql_answer" -> "END"

\* The edges added at lines 251-256.
NextNode(n) ==
    CASE n = "write_query" -> "execute_query"
      [] n = "execute_query" -> "generate_sql_answer"
      [] n = "rag_node" -> "END"
      [] n = "generate_sql_answer" -> "END"

Terminal == {"END", "failed", "returned", "raised"}

\* Fail with a fault: the invocation returns what the state holds so far.
FailWithFallback(r, e, cause) ==
    [r EXCEPT !.pc = "END", !.err = e, !.cause = cause,
              !.ret = [answer |-> r.st.answer, decision |-> r.st.decision]]

\* The node raises: ainvoke and process_question re-raise what it raised.
Fail(r, e, cause) == [r EXCEPT !.pc = "failed", !.err = e, !.cause = cause]

\* The exception _rag_node raises when there is still no retriever (line 111).
NotReadyRaise == "ValidationError"

\* The exception _router_agent raises for a text that is no label (line 89).
RouterRaise == "ValidationError"

\* What the exceptions of the collaborators are to the code: exceptions of no class
\* of app.core.errors, by the collaborator that raised them.
LlmRaises == "LlmException"
ToolRaises == "SqlToolException"

\* Returned with a fault: the raw result is returned for the answer.
ReturnedResult(r) == [r EXCEPT !.ret = [answer |-> r.st.result, decision |-> r.st.decision]]

\* process_question returns the last state's answer and decision (lines 291-294).
Returned(r) == [r EXCEPT !.ret = [answer |-> r.st.answer, decision |-> r.st.decision]]

\* The state after the node at r.pc returned its update.
Advance(r) ==
    LET n == NextNode(r.pc)
        moved == [r EXCEPT !.pc = n]
    IN  IF n = "END" THEN Returned(moved) ELSE moved

\* AskStart with a fault: the state of the workflow is kept on the service, and a
\* new question replaces it for every invocation.
AskStartShared(c, q) ==
    /\ call[c].op = "none"
    /\ call' = [p \in Procs |->
                   IF p = c
                   THEN [IdleCall EXCEPT !.op = "ask", !.pc = "decider",
                                         !.st = InitialState(q), !.asked = q]
                   ELSE IF call[p].op = "ask" THEN [call[p] EXCEPT !.st = InitialState(q)]
                   ELSE call[p]]
    /\ UNCHANGED <<status, disk, ing, retriever, installed, everProcessed, builds, msg, usr, ub>>

\* process_question(question): ainvoke enters the graph at "decider" (line 238).
AskStart(c, q) ==
    /\ call[c].op = "none"
    /\ call' = [call EXCEPT ![c] = [IdleCall EXCEPT !.op = "ask", !.pc = "decider",
                                                   !.st = InitialState(q), !.asked = q]]
    /\ UNCHANGED <<status, disk, ing, retriever, installed, everProcessed, builds, msg, usr, ub>>

\* _router_agent: the classifier's text is normalized and must be a label.
Decider(c, outputs) ==
    LET r == [call[c] EXCEPT !.trace = Append(@, "decider")]
    IN  /\ call[c].pc = "decider"
        /\ \/ call' = [call EXCEPT ![c] = Fail(r, LlmRaises, "provider")]
           \/ \E raw \in outputs :
                LET decision == Normalize(raw)
                    heard == [r EXCEPT !.raw = raw]
                IN  IF decision \notin Labels
                    THEN call' = [call EXCEPT ![c] = Fail(heard, RouterRaise, "router")]
                    ELSE call' = [call EXCEPT ![c] =
                                     [heard EXCEPT !.st.decision = decision,
                                                   !.pc = Route(decision)]]
        /\ UNCHANGED <<status, disk, ing, retriever, installed, everProcessed, builds, msg, usr, ub>>

\* doc.page_content of a retrieved chunk: the text of that chunk.
PageContent(ch) == <<"text", ch[1], ch[2]>>

\* Context with a fault: the texts are put in the prompt last to first.
ContextReversed(docs) == [i \in 1..Len(docs) |-> PageContent(docs[Len(docs) + 1 - i])]

\* Line 115: the texts of the retrieved chunks, in the order retrieved.
Context(docs) == [i \in 1..Len(docs) |-> PageContent(docs[i])]

\* RagUpdate with a fault: the node writes the context into the state as well.
RagUpdateWithContext(st, context, answer) ==
    [st EXCEPT !.answer = answer, !.context = context]

\* Line 133: the update _rag_node returns holds the answer only.
RagUpdate(st, context, answer) == [st EXCEPT !.answer = answer]

\* Lines 113-133: retrieval, the prompt and the generator's answer.
RagAnswer(r) ==
    LET context == Context(Retrieve(retriever, r.st.question))
        got == [r EXCEPT !.ctx = context,
                         !.seen = StoreOf(retriever), !.whole = installed,
                         !.nRetrieve = @ + 1, !.nGenerate = @ + 1]
    IN  {Fail(got, LlmRaises, "provider")}
        \cup {Advance([got EXCEPT !.st = RagUpdate(@, context, a),
                                  !.outs = Append(@, <<"rag_node", a>>)])
                  : a \in Answers}

\* Lines 109-111 with is_ready: no retriever starts one rebuild; one is answered from.
RagNode(c) ==
    LET r == [call[c] EXCEPT !.trace = Append(@, "rag_node")]
    IN  /\ call[c].pc = "rag_node"
        /\ call[c].kb.pc = "idle"
        /\ IF retriever = NoRetriever
           THEN call' = [call EXCEPT ![c] = [r EXCEPT !.kb.pc = "list", !.nRebuild = @ + 1]]
           ELSE \E n \in RagAnswer(r) : call' = [call EXCEPT ![c] = n]
        /\ UNCHANGED <<status, disk, ing, retriever, installed, everProcessed, builds, msg, usr, ub>>

\* Lines 110-133 once the rebuild is_ready awaited has ended.
RagAfterRebuild(c) ==
    LET r == call[c]
    IN  /\ r.pc = "rag_node"
        /\ r.kb.pc \in {"returned", "raised"}
        /\ IF r.kb.pc = "raised"
           THEN call' = [call EXCEPT ![c] = Fail(r, r.kb.err, "rebuild")]
           ELSE IF retriever = NoRetriever
                THEN call' = [call EXCEPT ![c] = Fail(r, NotReadyRaise, "not_ready")]
                ELSE \E n \in RagAnswer(r) : call' = [call EXCEPT ![c] = n]
        /\ UNCHANGED <<status, disk, ing, retriever, installed, everProcessed, builds, msg, usr, ub>>

\* _write_query: the generator's text, one of texts, cleaned, is the query.
WriteQueryOf(c, texts) ==
    LET r == [call[c] EXCEPT !.trace = Append(@, "write_query"), !.nGenerate = @ + 1]
    IN  /\ call[c].pc = "write_query"
        /\ \/ call' = [call EXCEPT ![c] = Fail(r, LlmRaises, "provider")]
           \/ \E text \in texts :
                call' = [call EXCEPT ![c] =
                            Advance([r EXCEPT !.st.sql_query = CleanSqlQuery(text),
                                              !.outs = Append(@, <<"write_query", text>>)])]
        /\ UNCHANGED <<status, disk, ing, retriever, installed, everProcessed, builds, msg, usr, ub>>

WriteQuery(c) == WriteQueryOf(c, SqlOutputs)

\* ExecInput with a fault: the tool is given an empty query.
ExecInputEmpty(st) == <<>>

\* Line 177: what query_tool.invoke is given.
ExecInput(st) == st.sql_query

\* ExecutionFailure with a fault: the tool's exception becomes the result.
ExecutionSwallowed(r) == Advance([r EXCEPT !.st.result = "error"])

\* Lines 184-189: what the tool raised is logged and raised again.
ExecutionFailure(r) == Fail(r, ToolRaises, "execution")

\* _execute_query: the query tool runs state["sql_query"].
ExecuteQuery(c) ==
    LET r == [call[c] EXCEPT !.trace = Append(@, "execute_query")]
        query == ExecInput(r.st)
    IN  /\ call[c].pc = "execute_query"
        /\ \/ call' = [call EXCEPT ![c] =
                           ExecutionFailure([r EXCEPT !.ran = Append(@, <<query, "raised">>)])]
           \/ \E res \in Results :
                call' = [call EXCEPT ![c] =
                            Advance([r EXCEPT !.st.result = res,
                                              !.ran = Append(@, <<query, res>>)])]
        /\ UNCHANGED <<status, disk, ing, retriever, installed, everProcessed, builds, msg, usr, ub>>

\* Lines 196-203: what the prompt of _generate_sql_answer is filled with.
PromptInputs(st) == [question |-> st.question, sql_query |-> st.sql_query, result |-> st.result]

\* _generate_sql_answer: the generator phrases the result.
GenerateSqlAnswer(c) ==
    LET r == [call[c] EXCEPT !.trace = Append(@, "generate_sql_answer"), !.nGenerate = @ + 1,
                             !.told = PromptInputs(call[c].st)]
    IN  /\ call[c].pc = "generate_sql_answer"
        /\ \/ call' = [call EXCEPT ![c] = Fail(r, LlmRaises, "provider")]
           \/ \E a \in Answers :
                call' = [call EXCEPT ![c] =
                            Advance([r EXCEPT !.st.answer = a,
                                              !.outs = Append(@, <<"generate_sql_answer", a>>)])]
        /\ UNCHANGED <<status, disk, ing, retriever, installed, everProcessed, builds, msg, usr, ub>>

\* The /ask endpoint (rag.py lines 42-67): the answer, 422 for ValidationError, and
\* one 500 for every other exception.
EndpointResponse(r) ==
    IF r.pc = "END" THEN [code |-> 200, body |-> r.ret]
    ELSE IF r.err = "ValidationError" THEN [code |-> 422, body |-> r.err]
    ELSE [code |-> 500, body |-> "Failed to process question"]

\* The caller has its result or its exception and may call again.
CallEnd(c) ==
    /\ call[c].pc \in Terminal
    /\ call' = [call EXCEPT ![c] = IdleCall]
    /\ UNCHANGED <<status, disk, ing, retriever, installed, everProcessed, builds, msg, usr, ub>>

(* ------------------------------ redis cache ---------------------------- *)

\* A key that is not set, and a key set to the JSON of a value.
Absent == [has |-> FALSE, val |-> <<>>]
Stored(v) == [has |-> TRUE, val |-> v]

\* RedisClient.get: the value of the key, None when the key is not set.
RedisGet(cache, key) == cache[key]

\* RedisClient.set with expire.
RedisSet(cache, key, v) == [cache EXCEPT ![key] = Stored(v)]

\* RedisClient.delete: DEL of the one key of that name.
RedisDelete(cache, key) == [k \in DOMAIN cache |-> IF k = key THEN Absent ELSE cache[k]]

(* ---------------------------- MessageService --------------------------- *)

\* The limits get_messages is called with: none cuts the conversation short.
Limits == {MaxMessages, MaxMessages + 1}

\* The cache key of a conversation's list for a limit is the limit; this one
\* stands for the key f"messages:{user_brand_id}:*" of _invalidate_message_cache.
PatternKey == 0

MessageKeys == Limits \cup {PatternKey}

\* The user_brand_id values add_message is called with: the _id of the document
\* of the user_brands collection, a well-formed id of no document, and a string
\* that is not the 24 hexadecimal digits of an ObjectId.
StoredUserBrand == 1
UnknownUserBrand == 2
NotAnObjectId == 0
UserBrandIds == {StoredUserBrand, UnknownUserBrand, NotAnObjectId}

\* CRUDUserBrand.get_by_id: ObjectId(id) and find_one inside the try, whose
\* handler raises DatabaseError for whatever was raised.
get_by_id(id) ==
    IF id = NotAnObjectId THEN [raised |-> "DatabaseError", found |-> FALSE]
    ELSE [raised |-> "", found |-> id = StoredUserBrand]

\* What add_message changes: the messages collection, the last_message of the
\* user_brands document, and the cache through the deletions it made.
Effects(m) == [db |-> m.db, last |-> m.last, dels |-> m.dels]

IdleAdd ==
    [pc |-> "idle", id |-> 0, user_brand_id |-> NotAnObjectId, err |-> "",
     before |-> [db |-> <<>>, last |-> 0, dels |-> 0]]
IdleGet == [pc |-> "idle", limit |-> 0, got |-> <<>>, must |-> {}, hit |-> FALSE]

MsgInit ==
    [db |-> <<>>, cache |-> [k \in MessageKeys |-> Absent], add |-> IdleAdd, get |-> IdleGet,
     added |-> {}, last |-> 0, dels |-> 0]

\* get_conversation and the reverse() of get_messages: the newest limit messages,
\* oldest first.
Conversation(db, limit) ==
    IF Len(db) <= limit THEN db ELSE SubSeq(db, Len(db) - limit + 1, Len(db))

\* add_message, lines 101-106: the association is looked up; NotFoundError when
\* there is none.
MsgAddLookup(id) ==
    /\ msg.add.pc = "idle"
    /\ id = StoredUserBrand => Len(msg.db) < MaxMessages
    /\ LET r == get_by_id(id)
           a == [IdleAdd EXCEPT !.user_brand_id = id, !.before = Effects(msg)]
       IN  msg' = [msg EXCEPT !.add =
                      IF r.raised # "" THEN [a EXCEPT !.pc = "raised", !.err = r.raised]
                      ELSE IF ~r.found THEN [a EXCEPT !.pc = "raised", !.err = "NotFoundError"]
                      ELSE [a EXCEPT !.pc = "found"]]
    /\ UNCHANGED <<status, disk, ing, retriever, call, installed, everProcessed, builds, usr, ub>>

\* add_message, line 109: the message is inserted.
MsgAddCreate ==
    /\ msg.add.pc = "found"
    /\ msg' = [msg EXCEPT !.db = Append(@, Len(@) + 1),
                          !.add.pc = "created", !.add.id = Len(msg.db) + 1]
    /\ UNCHANGED <<status, disk, ing, retriever, call, installed, everProcessed, builds, usr, ub>>

\* _invalidate_message_cache: redis.delete of the key with the star, or a failure
\* of redis that is logged.
MsgAddInvalidate ==
    /\ msg.add.pc = "created"
    /\ \/ msg' = [msg EXCEPT !.cache = RedisDelete(@, PatternKey), !.dels = @ + 1,
                             !.add.pc = "invalidated"]
       \/ msg' = [msg EXCEPT !.add.pc = "invalidated"]
    /\ UNCHANGED <<status, disk, ing, retriever, call, installed, everProcessed, builds, usr, ub>>

\* _update_last_message, and add_message returns the message.
MsgAddReturn ==
    /\ msg.add.pc = "invalidated"
    /\ msg' = [msg EXCEPT !.last = msg.add.id, !.added = @ \cup {msg.add.id}, !.add = IdleAdd]
    /\ UNCHANGED <<status, disk, ing, retriever, call, installed, everProcessed, builds, usr, ub>>

\* add_message raised: create_message answers 404 for NotFoundError, 500 otherwise.
MsgAddFail ==
    /\ msg.add.pc = "raised"
    /\ msg' = [msg EXCEPT !.add = IdleAdd]
    /\ UNCHANGED <<status, disk, ing, retriever, call, installed, everProcessed, builds, usr, ub>>

\* get_messages, lines 27-33: a cached list that is not empty is returned.
MsgGetStart(limit) ==
    /\ msg.get.pc = "idle"
    /\ \E cached \in {RedisGet(msg.cache, limit), Absent} :
          LET g == [IdleGet EXCEPT !.limit = limit, !.must = msg.added]
          IN  IF cached.has /\ cached.val # <<>>
              THEN msg' = [msg EXCEPT !.get = [g EXCEPT !.pc = "done", !.got = cached.val,
                                                        !.hit = TRUE]]
              ELSE msg' = [msg EXCEPT !.get = [g EXCEPT !.pc = "miss"]]
    /\ UNCHANGED <<status, disk, ing, retriever, call, installed, everProcessed, builds, usr, ub>>

\* Lines 36-37: the conversation is read from the collection.
MsgGetDb ==
    /\ msg.get.pc = "miss"
    /\ msg' = [msg EXCEPT !.get.pc = "read", !.get.got = Conversation(msg.db, msg.get.limit)]
    /\ UNCHANGED <<status, disk, ing, retriever, call, installed, everProcessed, builds, usr, ub>>

\* Lines 40-42: the list is cached, unless redis fails, and returned.
MsgGetCache ==
    /\ msg.get.pc = "read"
    /\ \/ msg' = [msg EXCEPT !.cache = RedisSet(@, msg.get.limit, msg.get.got),
                             !.get.pc = "done"]
       \/ msg' = [msg EXCEPT !.get.pc = "done"]
    /\ UNCHANGED <<status, disk, ing, retriever, call, installed, everProcessed, builds, usr, ub>>

MsgGetEnd ==
    /\ msg.get.pc = "done"
    /\ msg' = [msg EXCEPT !.get = IdleGet]
    /\ UNCHANGED <<status, disk, ing, retriever, call, installed, everProcessed, builds, usr, ub>>

\* MESSAGE_CACHE_TTL has passed for a key.
MsgExpire(key) ==
    /\ msg.cache[key].has
    /\ msg' = [msg EXCEPT !.cache[key] = Absent]
    /\ UNCHANGED <<status, disk, ing, retriever, call, installed, everProcessed, builds, usr, ub>>

(* ------------------------------ UserService ---------------------------- *)

UserIds == 1 .. MaxUsers

\* The requests that call get_or_create_user.
UserCallers == 1 .. MaxUserCalls

\* The users collection holds at most this many records in the model.
MaxRecords == MaxUsers + 1

\* Values of the id field: an ObjectId, its string, None.
ObjectId(n) == [type |-> "ObjectId", n |-> n]
Str(n) == [type |-> "str", n |-> n]
None == [type |-> "None", n |-> 0]

\* convert_object_id: the string of an ObjectId, anything else as it is.
convert_object_id(id) == IF id.type = "ObjectId" THEN Str(id.n) ELSE id

\* model_config of MongoBaseModel.
populate_by_name == TRUE

\* User(**d): id is read from its alias _id, and from its own name as well since
\* populate_by_name is set.
UserOf(d) ==
    [id |-> IF "_id" \in DOMAIN d THEN convert_object_id(d["_id"])
            ELSE IF populate_by_name /\ "id" \in DOMAIN d THEN convert_object_id(d["id"])
            ELSE None,
     user_id |-> d["user_id"]]

\* user.model_dump(): the fields under their own names.
model_dump(user) == [k \in {"id", "user_id"} |-> IF k = "id" THEN user.id ELSE user.user_id]

\* A document of the users collection.
UserDoc(n, u) == [k \in {"_id", "user_id"} |-> IF k = "_id" THEN ObjectId(n) ELSE u]

Matching(db, u) == {i \in 1 .. Len(db) : db[i]["user_id"] = u}

\* get_by_user_id with a fault: no document is ever found.
FindNone(db, u) == {}

\* get_by_user_id: find_one by user_id; the set holds the document found, if any.
get_by_user_id(db, u) ==
    IF Matching(db, u) = {} THEN {}
    ELSE {db[CHOOSE i \in Matching(db, u) : \A j \in Matching(db, u) : i <= j]}

IdleUserCall ==
    [pc |-> "idle", user_id |-> 0, user |-> UserOf(UserDoc(0, 0)), had |-> None,
     created |-> FALSE, hit |-> FALSE, dup |-> FALSE]

\* The service at start-up; unique tells whether create_indexes made the unique
\* index on users.user_id, or failed, which start_app logs and ignores.
UsrInit(unique) ==
    [db |-> <<>>, cache |-> [u \in UserIds |-> Absent], unique |-> unique,
     calls |-> [c \in UserCallers |-> IdleUserCall]]

\* The id of the record of u, None when there is none.
RecordId(db, u) ==
    IF Matching(db, u) = {} THEN None
    ELSE convert_object_id(db[CHOOSE i \in Matching(db, u) : TRUE]["_id"])

\* get_or_create_user, lines 24-26: the cached user is returned; a failure of redis
\* is a miss.
UsrStart(c, u) ==
    /\ usr.calls[c].pc = "idle"
    /\ \E cached \in {RedisGet(usr.cache, u), Absent} :
          LET r == [IdleUserCall EXCEPT !.user_id = u, !.had = RecordId(usr.db, u)]
          IN  IF cached.has
              THEN usr' = [usr EXCEPT !.calls[c] = [r EXCEPT !.pc = "done", !.hit = TRUE,
                                                             !.user = UserOf(cached.val)]]
              ELSE usr' = [usr EXCEPT !.calls[c] = [r EXCEPT !.pc = "miss"]]
    /\ UNCHANGED <<status, disk, ing, retriever, call, installed, everProcessed, builds, msg, ub>>

\* CRUDUser.get_or_create, lines 43-47: the user found is returned; a failure of
\* the database is raised as DatabaseError.
UsrFind(c) ==
    /\ usr.calls[c].pc = "miss"
    /\ LET found == get_by_user_id(usr.db, usr.calls[c].user_id)
       IN  \/ /\ found # {}
              /\ usr' = [usr EXCEPT !.calls[c].pc = "got",
                                    !.calls[c].user = UserOf(CHOOSE d \in found : TRUE)]
           \/ /\ found = {}
              /\ usr' = [usr EXCEPT !.calls[c].pc = "insert"]
           \/ usr' = [usr EXCEPT !.calls[c].pc = "raised"]
    /\ UNCHANGED <<status, disk, ing, retriever, call, installed, everProcessed, builds, msg, ub>>

\* Rejected with a fault: the index does not stop a second record of a user_id.
NeverRejected(unique, db, u) == FALSE

\* insert_one raises DuplicateKeyError: the unique index is there and the user_id
\* has a record.
Rejected(unique, db, u) == unique /\ Matching(db, u) # {}

\* Lines 50-65: insert_one of a new document, which the unique index rejects when
\* the user_id has a record; what insert_one raises is raised as DatabaseError.
UsrInsert(c) ==
    /\ usr.calls[c].pc = "insert"
    /\ LET u == usr.calls[c].user_id
           doc == UserDoc(Len(usr.db) + 1, u)
       IN  \/ /\ Rejected(usr.unique, usr.db, u)
              /\ usr' = [usr EXCEPT !.calls[c].pc = "raised", !.calls[c].dup = TRUE]
           \/ /\ ~Rejected(usr.unique, usr.db, u)
              /\ Len(usr.db) < MaxRecords
              /\ usr' = [usr EXCEPT !.db = Append(@, doc), !.calls[c].pc = "got",
                                    !.calls[c].user = UserOf(doc),
                                    !.calls[c].created = TRUE]
           \/ usr' = [usr EXCEPT !.calls[c].pc = "raised"]
    /\ UNCHANGED <<status, disk, ing, retriever, call, installed, everProcessed, builds, msg, ub>>

\* Lines 32-42: the brand association, whose failure is logged; the user is cached,
\* unless redis fails, and returned.
UsrCache(c) ==
    /\ usr.calls[c].pc = "got"
    /\ \/ usr' = [usr EXCEPT !.cache = RedisSet(@, usr.calls[c].user_id,
                                                model_dump(usr.calls[c].user)),
                             !.calls[c].pc = "done"]
       \/ usr' = [usr EXCEPT !.calls[c].pc = "done"]
    /\ UNCHANGED <<status, disk, ing, retriever, call, installed, everProcessed, builds, msg, ub>>

UsrEnd(c) ==
    /\ usr.calls[c].pc \in {"done", "raised"}
    /\ usr' = [usr EXCEPT !.calls[c] = IdleUserCall]
    /\ UNCHANGED <<status, disk, ing, retriever, call, installed, everProcessed, builds, msg, ub>>

\* USER_CACHE_TTL has passed for a user.
UsrExpire(u) ==
    /\ usr.cache[u].has
    /\ usr' = [usr EXCEPT !.cache[u] = Absent]
    /\ UNCHANGED <<status, disk, ing, retriever, call, installed, everProcessed, builds, msg, ub>>

(* ---------------------------- UserBrandService ------------------------- *)

\* The brands of the brands collection; the associations are those of one user.
Brands == 1 .. MaxBrands

\* The key _cache_user_brands writes and _get_from_cache reads, and the key
\* _invalidate_cache deletes.
DetailedKey == "user_brands_detailed"
PlainKey == "user_brands"
BrandKeys == {DetailedKey, PlainKey}

IdleChange == [pc |-> "idle", op |-> "none", brand |-> 0]
IdleBrands == [pc |-> "idle", got |-> <<>>, hit |-> FALSE]

\* assoc: the brand ids of the user's documents in user_brands, as the aggregation
\* lists them; changed: an association was made or removed since the service started.
UbInit ==
    [assoc |-> <<>>, cache |-> [k \in BrandKeys |-> Absent], chg |-> IdleChange,
     get |-> IdleBrands, changed |-> FALSE]

\* Line 175: the key _invalidate_cache deletes.
InvalidatedKey == PlainKey

\* The filter {user_id, brand_id} of the upsert and of delete_one matches.
Associated(assoc, b) == \E i \in 1 .. Len(assoc) : assoc[i] = b

\* associate_brand, lines 131-137: the brand exists and the association is upserted.
UbAssociate(b) ==
    /\ ub.chg.pc = "idle"
    /\ ub' = [ub EXCEPT !.assoc = IF Associated(@, b) THEN @ ELSE Append(@, b),
                        !.chg = [pc |-> "changed", op |-> "associate", brand |-> b]]
    /\ UNCHANGED <<status, disk, ing, retriever, call, installed, everProcessed, builds, msg, usr>>

\* remove_brand_association, lines 239-248: an association that exists is deleted.
UbRemove(b) ==
    /\ ub.chg.pc = "idle"
    /\ Associated(ub.assoc, b)
    /\ ub' = [ub EXCEPT !.assoc = SelectSeq(@, LAMBDA x : x # b),
                        !.chg = [pc |-> "changed", op |-> "remove", brand |-> b]]
    /\ UNCHANGED <<status, disk, ing, retriever, call, installed, everProcessed, builds, msg, usr>>

\* _invalidate_cache, and the change returns; a failure of redis is logged.
UbInvalidate ==
    /\ ub.chg.pc = "changed"
    /\ \/ ub' = [ub EXCEPT !.cache = RedisDelete(@, InvalidatedKey), !.chg = IdleChange,
                           !.changed = TRUE]
       \/ ub' = [ub EXCEPT !.chg = IdleChange, !.changed = TRUE]
    /\ UNCHANGED <<status, disk, ing, retriever, call, installed, everProcessed, builds, msg, usr>>

\* get_user_brands, lines 27-29: a cached list that is not empty is returned.
UbGetStart ==
    /\ ub.get.pc = "idle"
    /\ \E cached \in {RedisGet(ub.cache, DetailedKey), Absent} :
          IF cached.has /\ cached.val # <<>>
          THEN ub' = [ub EXCEPT !.get = [pc |-> "done", got |-> cached.val, hit |-> TRUE]]
          ELSE ub' = [ub EXCEPT !.get = [IdleBrands EXCEPT !.pc = "miss"]]
    /\ UNCHANGED <<status, disk, ing, retriever, call, installed, everProcessed, builds, msg, usr>>

\* Lines 32-35: the user's brands are read from the collection.
UbGetDb ==
    /\ ub.get.pc = "miss"
    /\ ub' = [ub EXCEPT !.get.pc = "read", !.get.got = ub.assoc]
    /\ UNCHANGED <<status, disk, ing, retriever, call, installed, everProcessed, builds, msg, usr>>

\* Lines 38-40: the list is cached, unless redis fails, and returned.
UbGetCache ==
    /\ ub.get.pc = "read"
    /\ \/ ub' = [ub EXCEPT !.cache = RedisSet(@, DetailedKey, ub.get.got), !.get.pc = "done"]
       \/ ub' = [ub EXCEPT !.get.pc = "done"]
    /\ UNCHANGED <<status, disk, ing, retriever, call, installed, everProcessed, builds, msg, usr>>

UbGetEnd ==
    /\ ub.get.pc = "done"
    /\ ub' = [ub EXCEPT !.get = IdleBrands]
    /\ UNCHANGED <<status, disk, ing, retriever, call, installed, everProcessed, builds, msg, usr>>

\* USER_CACHE_TTL has passed for a key.
UbExpire(key) ==
    /\ ub.cache[key].has
    /\ ub' = [ub EXCEPT !.cache[key] = Absent]
    /\ UNCHANGED <<status, disk, ing, retriever, call, installed, everProcessed, builds, msg, usr>>

(* ----------------------------- specifications -------------------------- *)

InitData ==
    /\ \E seed \in SeedStates :
          /\ status = [d \in Docs |-> IF d \in SeedDocs THEN seed[1] ELSE "absent"]
          /\ disk = [d \in Docs |-> IF d \in SeedDocs THEN seed[2] ELSE "none"]
    /\ ing = [i \in Ingests |-> IdleIngest]
    /\ retriever = NoRetriever
    /\ call = [c \in Procs |-> IdleCall]
    /\ installed = NoStore
    /\ everProcessed = {d \in Docs : status[d] = "processed"}
    /\ builds = <<>>

\* The services after start-up, the indexes of the database created.
Init == InitData /\ msg = MsgInit /\ usr = UsrInit(TRUE) /\ ub = UbInit

\* Ingestion, maintenance of the records and rebuilds of the knowledge base, one
\* rebuild at a time (SpecShared runs them concurrently).
Next ==
    \/ \E i \in Ingests, f \in Files : IngestExtract(i, f)
    \/ \E i \in Ingests : IngestStore(i)
    \/ \E i \in Ingests : IngestSaveBegin(i)
    \/ \E i \in Ingests : IngestSave(i)
    \/ CleanupFailed
    \/ ReprocessFailed
    \/ \E d \in Docs : DeleteDocument(d)
    \/ \E c \in Callers : (\A o \in Procs : call[o].op = "none") /\ RebuildStart(c)
    \/ \E c \in Callers : KBList(c)
    \/ \E c \in Callers : KBLoad(c)
    \/ \E c \in Callers : KBPublish(c)
    \/ \E c \in Callers : CallEnd(c)
    \/ NewService

Spec == Init /\ [][Next]_vars

\* Questions through the whole workflow, over the data as found.
NextFlow ==
    \/ \E a \in Askers, q \in Questions : AskStart(a, q)
    \/ \E a \in Askers : Decider(a, ClassifierOutputs)
    \/ \E a \in Askers : RagNode(a)
    \/ \E a \in Askers : KBList(a)
    \/ \E a \in Askers : KBLoad(a)
    \/ \E a \in Askers : KBPublish(a)
    \/ \E a \in Askers : RagAfterRebuild(a)
    \/ \E a \in Askers : WriteQuery(a)
    \/ \E a \in Askers : ExecuteQuery(a)
    \/ \E a \in Askers : GenerateSqlAnswer(a)
    \/ \E a \in Askers : CallEnd(a)
    \/ NewService

SpecFlow == Init /\ [][NextFlow]_vars

\* Questions answered from documents while rebuilds run and records are deleted:
\* every document was ingested before; one question and one direct rebuild at a time.
InitShared ==
    /\ status = [d \in Docs |-> "processed"]
    /\ disk = [d \in Docs |-> CurrentDim]
    /\ ing = [i \in Ingests |-> IdleIngest]
    /\ retriever = NoRetriever
    /\ call = [c \in Procs |-> IdleCall]
    /\ installed = NoStore
    /\ everProcessed = Docs
    /\ builds = <<>>
    /\ msg = MsgInit
    /\ usr = UsrInit(TRUE)
    /\ ub = UbInit

NextShared ==
    \/ \E d \in Docs : DeleteDocument(d)
    \/ \E c \in Callers : (\A o \in Callers : call[o].op = "none") /\ RebuildStart(c)
    \/ \E a \in Askers : (\A o \in Askers : call[o].op = "none") /\ AskStart(a, 1)
    \/ \E a \in Askers : Decider(a, {RagLabel})
    \/ \E a \in Askers : RagNode(a)
    \/ \E a \in Askers : RagAfterRebuild(a)
    \/ \E p \in Procs : KBList(p)
    \/ \E p \in Procs : KBLoad(p)
    \/ \E p \in Procs : KBPublish(p)
    \/ \E p \in Procs : CallEnd(p)
    \/ NewService

SpecShared == InitShared /\ [][NextShared]_vars

\* The router alone, on every text the classifier may return: the questions of
\* one asker, one after the other.
InitRouter == Init /\ status[1] = "processed" /\ disk[1] = CurrentDim

RouterAskers == {a \in Askers : \A o \in Askers : a <= o}

NextRouter ==
    \/ \E a \in RouterAskers : AskStart(a, 1)
    \/ \E a \in RouterAskers : Decider(a, AllOutputs)
    \/ \E a \in RouterAskers : call[a].pc = "failed" /\ CallEnd(a)

SpecRouter == InitRouter /\ [][NextRouter]_vars

\* The query writer alone, on every text the generator may return: the questions
\* of one asker, routed to sql, one after the other.
NextClean ==
    \/ \E a \in RouterAskers : AskStart(a, 1)
    \/ \E a \in RouterAskers : Decider(a, {SqlLabel})
    \/ \E a \in RouterAskers : WriteQueryOf(a, AllTexts)
    \/ \E a \in RouterAskers : call[a].pc = "failed" /\ CallEnd(a)

SpecClean == InitRouter /\ [][NextClean]_vars

\* Two questions at a time on one service, over documents ingested before.
Pair == {p \in Procs : Cardinality({o \in Procs : o < p}) < 2}

NextPair ==
    \/ \E p \in Pair, q \in Questions : AskStart(p, q)
    \/ \E p \in Pair : Decider(p, ClassifierOutputs)
    \/ \E p \in Pair : RagNode(p)
    \/ \E p \in Pair : KBList(p)
    \/ \E p \in Pair : KBLoad(p)
    \/ \E p \in Pair : KBPublish(p)
    \/ \E p \in Pair : RagAfterRebuild(p)
    \/ \E p \in Pair : WriteQuery(p)
    \/ \E p \in Pair : ExecuteQuery(p)
    \/ \E p \in Pair : GenerateSqlAnswer(p)
    \/ \E p \in Pair : CallEnd(p)
    \/ NewService

SpecPair == InitShared /\ [][NextPair]_vars

\* The steps of the invocation of asker a: the nodes ainvoke runs for it, and the
\* rebuild its rag node awaits.
AskStep(a) ==
    \/ Decider(a, ClassifierOutputs)
    \/ RagNode(a)
    \/ KBList(a)
    \/ KBLoad(a)
    \/ KBPublish(a)
    \/ RagAfterRebuild(a)
    \/ WriteQuery(a)
    \/ ExecuteQuery(a)
    \/ GenerateSqlAnswer(a)

\* The invocations of one asker, one after the other.
NextFlowOne ==
    \/ \E a \in RouterAskers, q \in Questions : AskStart(a, q)
    \/ \E a \in RouterAskers : AskStep(a)
    \/ \E a \in RouterAskers : CallEnd(a)
    \/ NewService

\* The event loop resumes an invocation whose awaited call has returned or raised:
\* it does not wait forever while it can take a step.
SpecFlowLive == Init /\ [][NextFlowOne]_vars /\ \A a \in RouterAskers : WF_vars(AskStep(a))

\* One conversation: messages are added and the conversation is read, one call at
\* a time, while cached lists expire.
NextMessages ==
    \/ \E id \in UserBrandIds : msg.get.pc = "idle" /\ MsgAddLookup(id)
    \/ MsgAddCreate
    \/ MsgAddInvalidate
    \/ MsgAddReturn
    \/ MsgAddFail
    \/ \E limit \in Limits : msg.add.pc = "idle" /\ MsgGetStart(limit)
    \/ MsgGetDb
    \/ MsgGetCache
    \/ MsgGetEnd
    \/ \E key \in MessageKeys : MsgExpire(key)

SpecMessages == Init /\ [][NextMessages]_vars

\* The user service after start-up, with or without the unique index.
InitUsers ==
    /\ InitData /\ status[1] = "processed" /\ disk[1] = CurrentDim
    /\ msg = MsgInit
    /\ usr \in {UsrInit(unique) : unique \in BOOLEAN}
    /\ ub = UbInit

\* Sequential calls of get_or_create_user, while cached users expire.
NextUsers ==
    \/ \E c \in UserCallers, u \in UserIds :
          (\A o \in UserCallers : usr.calls[o].pc = "idle") /\ UsrStart(c, u)
    \/ \E c \in UserCallers : UsrFind(c)
    \/ \E c \in UserCallers : UsrInsert(c)
    \/ \E c \in UserCallers : UsrCache(c)
    \/ \E c \in UserCallers : UsrEnd(c)
    \/ \E u \in UserIds : UsrExpire(u)

SpecUsers == InitUsers /\ [][NextUsers]_vars

\* The two requests whose calls of get_or_create_user run concurrently.
RaceCallers == {c \in UserCallers : Cardinality({o \in UserCallers : o < c}) < 2}

\* Concurrent calls of get_or_create_user; calls that overlap are for one user_id.
NextUsersRace ==
    \/ \E c \in RaceCallers, u \in UserIds :
          /\ \A o \in RaceCallers : usr.calls[o].pc = "idle" \/ usr.calls[o].user_id = u
          /\ UsrStart(c, u)
    \/ \E c \in RaceCallers : UsrFind(c)
    \/ \E c \in RaceCallers : UsrInsert(c)
    \/ \E c \in RaceCallers : UsrCache(c)
    \/ \E c \in RaceCallers : UsrEnd(c)
    \/ \E u \in UserIds : UsrExpire(u)

SpecUsersRace == InitUsers /\ [][NextUsersRace]_vars

\* The brands of one user: associations are made and removed and the list is
\* read, one call at a time, while cached lists expire.
NextBrands ==
    \/ \E b \in Brands : ub.get.pc = "idle" /\ UbAssociate(b)
    \/ \E b \in Brands : ub.get.pc = "idle" /\ UbRemove(b)
    \/ UbInvalidate
    \/ ub.chg.pc = "idle" /\ UbGetStart
    \/ UbGetDb
    \/ UbGetCache
    \/ UbGetEnd
    \/ \E key \in BrandKeys : UbExpire(key)

SpecBrands == InitRouter /\ [][NextBrands]_vars

(* --------------------------------- claims ------------------------------ *)

Range(s) == {s[i] : i \in 1..Len(s)}

IsPrefix(s, t) == Len(s) <= Len(t) /\ SubSeq(t, 1, Len(s)) = s

RagPath == <<"decider", "rag_node">>
SqlPath == <<"decider", "write_query", "execute_query", "generate_sql_answer">>

PathOf(decision) == IF decision = RagLabel THEN RagPath ELSE SqlPath

\* C1: an invocation runs "decider" first and then only the nodes of the path its
\* decision selects, in order and once each: rag_node on "rag"; write_query,
\* execute_query, generate_sql_answer on "sql"; it reaches END only after the
\* whole path.
C1_WorkflowPaths ==
    \A a \in Askers :
        LET r == call[a]
            entered == r.pc = "rag_node" /\ r.kb.pc # "idle"
        IN  r.op = "ask" =>
              /\ IsPrefix(r.trace, RagPath) \/ IsPrefix(r.trace, SqlPath)
              /\ Len(r.trace) >= 2 => IsPrefix(r.trace, PathOf(r.st.decision))
              /\ Len(r.trace) >= 2 => r.st.decision \in Labels
              /\ r.pc = "END" => r.trace = PathOf(r.st.decision)
              /\ (r.pc \notin Terminal /\ ~entered) =>
                    /\ IsPrefix(Append(r.trace, r.pc), RagPath)
                          \/ IsPrefix(Append(r.trace, r.pc), SqlPath)
                    /\ r.trace # <<>> => IsPrefix(Append(r.trace, r.pc), PathOf(r.st.decision))
              /\ entered => r.trace = RagPath /\ r.st.decision = RagLabel

C1_Witness ==
    \E a \in Askers :
        /\ call[a].pc = "END"
        /\ call[a].trace = SqlPath
        /\ call[a].st.decision = SqlLabel

\* C2: a question routed to "rag" whose one rebuild loaded nothing, with no
\* retriever on the service, fails with NotReadyError after exactly one rebuild
\* and without a call of the retriever or of the generator.
C2_NotReadyGating ==
    \A a \in Askers :
        LET r == call[a]
        IN  (/\ r.pc = "failed"
             /\ r.st.decision = RagLabel
             /\ r.kb.pc = "returned"
             /\ r.kb.comb = NoStore
             /\ retriever = NoRetriever) =>
                /\ r.err = "NotReadyError"
                /\ r.nRebuild = 1
                /\ r.nRetrieve = 0
                /\ r.nGenerate = 0

\* C3: a document that process_pdf recorded has a persisted index exactly when
\* its record has status processed.
C3_IndexIffProcessed ==
    \A i \in Ingests :
        LET d == ing[i].doc
        IN  (d # 0 /\ status[d] # "deleted") =>
                (disk[d] = CurrentDim <=> status[d] = "processed")

\* The class the code has for a failure of storage.
StorageErrorClass == "DatabaseError"

\* C4: process_pdf fails with the storage error and leaves the record failed when
\* the index cannot be saved; it fails with ValidationError when the text cannot
\* be extracted, and a record it created is then failed.
C4_IngestFailures ==
    \A i \in Ingests :
        LET r == ing[i]
        IN  /\ r.cause = "save" =>
                /\ r.err = StorageErrorClass
                /\ status[r.doc] \in {"failed", "deleted"}
            /\ r.cause = "extract" =>
                /\ r.err = "ValidationError"
                /\ r.doc # 0 => status[r.doc] \in {"failed", "deleted"}

\* C5: what a retrieval reads is the store the last finished rebuild installed,
\* whole: never the store a running rebuild is still merging into.
C5_AtomicSnapshot ==
    \A a \in Askers :
        call[a].nRetrieve > 0 =>
            /\ call[a].seen = call[a].whole
            /\ call[a].seen # NoStore

C5_Witness ==
    \E a \in Askers, c \in Callers :
        /\ call[a].nRetrieve = 1
        /\ call[c].kb.pc = "loop"
        /\ call[c].kb.comb # NoStore
        /\ call[c].kb.docs # <<>>
        /\ call[c].kb.comb # call[a].seen

SameLetter(ch, l) == ch = l \/ <<ch, l>> \in {<<"R", "r">>, <<"S", "s">>}

\* raw is the label in any case, between any whitespace.
IsVariant(raw, label) ==
    \E i \in 0..Len(raw) :
        /\ i + Len(label) <= Len(raw)
        /\ \A p \in 1..i : raw[p] \in Whitespace
        /\ \A p \in 1..Len(label) : SameLetter(raw[i + p], label[p])
        /\ \A p \in (i + Len(label) + 1)..Len(raw) : raw[p] \in Whitespace

\* C6: the router answers "rag" or "sql" exactly for the texts that are that
\* label up to case and surrounding whitespace; every other text makes it raise
\* ValidationError at once, with no second call and no path taken.
C6_RouterExhaustive ==
    \A a \in Askers :
        LET r == call[a]
        IN  (r.trace # <<>> /\ r.cause # "provider") =>
              /\ r.trace = <<"decider">>
              /\ IsVariant(r.raw, RagLabel) =>
                    r.st.decision = RagLabel /\ r.pc = "rag_node" /\ r.err = "none"
              /\ IsVariant(r.raw, SqlLabel) =>
                    r.st.decision = SqlLabel /\ r.pc = "write_query" /\ r.err = "none"
              /\ (~IsVariant(r.raw, RagLabel) /\ ~IsVariant(r.raw, SqlLabel)) =>
                    r.pc = "failed" /\ r.err = "ValidationError" /\ r.st.decision = <<>>

C6_Witness ==
    \E a \in Askers :
        /\ call[a].raw = <<"\n", "R", "a", "g", " ">>
        /\ call[a].st.decision = RagLabel
        /\ call[a].pc = "rag_node"

NotProcessed == {"pending", "processing", "failed"}

\* C7: every chunk of the retriever, and of a store being merged, is of a document
\* that had status processed; none is of a pending, processing or failed one.
C7_OnlyProcessedChunks ==
    LET stores == {retriever.docs} \cup {call[c].kb.comb.docs : c \in Callers}
    IN  \A ds \in stores :
            \A ch \in Range(ChunksOf(ds)) :
                /\ ch[1] \in everProcessed
                /\ status[ch[1]] \notin NotProcessed

C7_Witness ==
    /\ retriever.docs = <<2>>
    /\ status[1] \in NotProcessed
    /\ disk[1] = CurrentDim

\* C8: a rebuild raises only when listing fails: a document that fails to load or
\* to merge is skipped, the loop goes on to the last document, and the retriever
\* the rebuild leaves holds every document that loaded and merged.
C8_LoadFailureSkipped ==
    \A c \in Callers :
        LET k == call[c].kb
        IN  /\ k.pc = "raised" => k.skipped = {} /\ k.ok = {}
            /\ k.pc = "loop" => Range(k.comb.docs) = k.ok
            /\ k.pc = "returned" =>
                  /\ k.docs = <<>>
                  /\ k.ok # {} => Range(k.result.docs) = k.ok

C8_Witness ==
    \E c \in Callers :
        /\ call[c].kb.pc = "returned"
        /\ call[c].kb.skipped # {}
        /\ call[c].kb.ok # {}
        /\ Range(call[c].kb.result.docs) = call[c].kb.ok

\* C9: a rebuild that found no processed document, or loaded no index, leaves the
\* service with no retriever.
C9_EmptyRebuildNotReady ==
    \A c \in Callers :
        LET k == call[c].kb
        IN  (k.pc = "returned" /\ k.comb = NoStore) => k.result = NoRetriever

\* C10: a rebuild over the data an earlier rebuild ran over leaves the retriever
\* that one left: the same chunks in the same order, the same chunks retrieved
\* for every question.
C10_RebuildIdempotent ==
    \A c \in Callers :
        LET k == call[c].kb
        IN  (k.pc = "returned" /\ k.prev # <<>>) =>
                /\ k.result = k.prev[1]
                /\ \A q \in Questions : Retrieve(k.result, q) = Retrieve(k.prev[1], q)

C10_Witness ==
    \E c \in Callers :
        /\ call[c].kb.pc = "returned"
        /\ call[c].kb.prev # <<>>
        /\ Len(call[c].kb.result.docs) = 2

Last(s) == s[Len(s)]

Answered(r) == {r.outs[i][1] : i \in 1..Len(r.outs)}

\* C12: an invocation one of whose steps failed has failed at that step: it
\* returned nothing, holds no answer, and takes no step but its end.
C12_StepFailureAborts ==
    /\ [](\A a \in Askers :
            LET r == call[a]
            IN  /\ r.cause # "none" <=> r.pc = "failed"
                /\ r.pc = "failed" =>
                      /\ r.err # "none"
                      /\ r.ret = NoReturn
                      /\ r.st.answer = ""
                      /\ r.trace # <<>>
                      /\ Last(r.trace) \notin Answered(r)
                      /\ EndpointResponse(r).code # 200)
    /\ [][\A a \in Askers :
            call[a].pc = "failed" => call'[a] \in {call[a], IdleCall}]_vars

C12_Witness ==
    \E a \in Askers :
        /\ call[a].pc = "failed"
        /\ call[a].trace = SqlPath
        /\ call[a].st.result \in Results

Raised(r) == {i \in 1..Len(r.ran) : r.ran[i][2] = "raised"}

KindOf(cause) ==
    CASE cause = "router" -> "ValidationError"
      [] cause = "not_ready" -> "NotReadyError"
      [] cause = "provider" -> "ProviderError"
      [] cause = "execution" -> "ExecutionError"
      [] cause = "rebuild" -> "StorageError"

\* The kind a caller of /ask can tell from the response.
SurfacedKind(resp) == IF resp.code = 422 THEN resp.body ELSE "unknown"

\* C14: the error a failed ask gives its caller tells the kind of the failure.
C14_KindPreserved ==
    \A a \in Askers :
        LET r == call[a]
        IN  r.pc = "failed" => SurfacedKind(EndpointResponse(r)) = KindOf(r.cause)

\* C15: after process_pdf failed on a file that cannot be read, the document has
\* a record with status failed, and no store of a rebuild holds a chunk of it.
C15_CorruptLeavesFailed ==
    \A i \in Ingests :
        (ing[i].file = "corrupt" /\ ing[i].pc = "raised") =>
            /\ ing[i].doc # 0
            /\ status[ing[i].doc] = "failed"
            /\ \A c \in Callers :
                  ing[i].doc \notin Range(retriever.docs) \cup Range(call[c].kb.comb.docs)

\* The documents an ingestion has not yet, or has not, saved the index of.
Unsaved == {ing[i].doc : i \in {j \in Ingests : ing[j].pc \in {"stored", "saving", "raised"}}}

\* C16: a rebuild that runs while process_pdf runs raises only if its listing
\* fails, before it read any document, and no store it merges or installs holds
\* a document whose index process_pdf has not saved whole.
C16_RebuildDuringIngestion ==
    \A c \in Callers :
        LET k == call[c].kb
        IN  /\ k.pc = "raised" =>
                  k.docs = <<>> /\ k.comb = NoStore /\ k.ok = {} /\ k.skipped = {}
            /\ \A d \in Range(k.comb.docs) \cup Range(retriever.docs) :
                  /\ d \notin Unsaved
                  /\ disk[d] \notin {"none", "corrupt"}

C16_Witness ==
    \E c \in Callers, i \in Ingests :
        /\ ing[i].pc = "saving"
        /\ ing[i].doc \in call[c].kb.skipped
        /\ call[c].kb.pc = "returned"
        /\ ~call[c].kb.clean

\* C17: of two invocations in flight, each keeps the question it was called
\* with, no step of one changes anything the other holds, and each returns the
\* decision and the answer its own steps produced.
C17_NoSharedRequestState ==
    /\ [](\A p \in Pair :
            LET r == call[p]
            IN  r.op = "ask" =>
                  /\ r.st.question = r.asked
                  /\ r.told # NoInputs => r.told.question = r.asked
                  /\ r.ctx # <<>> =>
                        r.ctx = Context(Retrieve(AsRetriever(r.seen, RAG_TOP_K), r.asked))
                  /\ r.pc = "END" =>
                        /\ IsVariant(r.raw, r.ret.decision)
                        /\ r.ret.answer = Last(r.outs)[2])
    /\ [][\A p, o \in Pair :
            (p # o /\ call'[p] # call[p]) => call'[o] = call[o]]_vars

C17_Witness ==
    \E p, o \in Pair :
        /\ call[p].pc = "END" /\ call[o].pc = "END"
        /\ call[p].asked # call[o].asked
        /\ call[p].ret.decision = RagLabel /\ call[o].ret.decision = SqlLabel
        /\ call[p].ret.answer # call[o].ret.answer

\* C18: a get_messages call that starts after add_message returned contains the
\* added message, whether or not a list had been cached before the add.
C18_AddedMessageVisible ==
    msg.get.pc = "done" => msg.get.must \subseteq Range(msg.get.got)

\* C19: get_or_create_user is idempotent per user_id: a call for a user_id that
\* already has a record returns that record, with the same id, and creates none, so
\* there is never more than one record of a user_id, and exactly one after a call
\* that returned.
C19_GetOrCreateIdempotent ==
    /\ \A u \in UserIds : Cardinality(Matching(usr.db, u)) <= 1
    /\ \A c \in UserCallers :
          LET r == usr.calls[c]
          IN  r.pc = "done" =>
                /\ Cardinality(Matching(usr.db, r.user_id)) = 1
                /\ r.user = [id |-> RecordId(usr.db, r.user_id), user_id |-> r.user_id]
                /\ r.had # None => r.user.id = r.had /\ ~r.created

\* A later call for a user whose record exists is answered from the cache.
C19_Witness ==
    \E c \in UserCallers :
        /\ usr.calls[c].pc = "done"
        /\ usr.calls[c].hit
        /\ usr.calls[c].had = Str(MaxUsers)
        /\ usr.calls[c].user.id = Str(MaxUsers)
        /\ Len(usr.db) = MaxUsers

\* C20: on the sql path the text executed is the cleaned text of the query
\* generator, and the answer is phrased from the question asked, that same query
\* and the result the execution returned.
C20_SqlDataFlow ==
    \A a \in Askers :
        LET r == call[a]
        IN  /\ \A i \in 1 .. Len(r.ran) :
                  \E j \in 1 .. Len(r.outs) :
                      /\ r.outs[j][1] = "write_query"
                      /\ r.ran[i][1] = CleanSqlQuery(r.outs[j][2])
            /\ "generate_sql_answer" \in Range(r.trace) =>
                  /\ Len(r.ran) = 1
                  /\ r.told = [question |-> r.asked, sql_query |-> r.ran[1][1],
                               result |-> r.ran[1][2]]

C20_Witness ==
    \E a \in Askers :
        /\ call[a].pc = "END"
        /\ call[a].asked = 2
        /\ call[a].ran = <<(<<(<<"q">>), "no rows">>)>>
        /\ \E j \in 1 .. Len(call[a].outs) :
              /\ call[a].outs[j][1] = "write_query"
              /\ Len(call[a].outs[j][2]) > 1
        /\ call[a].told.result = "no rows"

\* C21: on the rag path the context the generator is given is the texts of the
\* chunks the retriever returned for the question asked, in retrieval order, and
\* the answer returned is the text the generator answered with.
C21_RagDataFlow ==
    \A a \in Askers :
        LET r == call[a]
            docs == Retrieve(AsRetriever(r.seen, RAG_TOP_K), r.asked)
        IN  /\ r.nRetrieve > 0 =>
                  /\ Len(r.ctx) = Len(docs)
                  /\ \A i \in 1..Len(docs) : r.ctx[i] = <<"text", docs[i][1], docs[i][2]>>
            /\ (r.pc = "END" /\ r.ret.decision = RagLabel) =>
                  /\ r.outs = <<(<<"rag_node", r.ret.answer>>)>>
                  /\ r.nRetrieve = 1

C21_Witness ==
    \E a \in Askers :
        /\ call[a].pc = "END"
        /\ call[a].ret = [answer |-> "a2", decision |-> RagLabel]
        /\ call[a].asked = 2
        /\ Len(call[a].ctx) = ChunksPerDoc
        /\ call[a].ctx[1] # call[a].ctx[2]

\* C22: the retriever a rebuild produces is bound to RAG_TOP_K: every retrieval
\* returns at most RAG_TOP_K chunks, and exactly the smaller of RAG_TOP_K and the
\* number of chunks in the combined index.
C22_TopKBound ==
    /\ retriever # NoRetriever =>
          /\ retriever.k = RAG_TOP_K
          /\ \A q \in Questions :
                Len(Retrieve(retriever, q)) = Min(RAG_TOP_K, Len(ChunksOf(retriever.docs)))
    /\ \A a \in Askers :
          call[a].nRetrieve > 0 =>
              /\ Len(call[a].ctx) <= RAG_TOP_K
              /\ Len(call[a].ctx) = Min(RAG_TOP_K, Len(ChunksOf(call[a].seen.docs)))

\* A retrieval from an index of more chunks than RAG_TOP_K.
C22_Witness ==
    \E a \in Askers :
        /\ call[a].pc = "END"
        /\ call[a].nRetrieve = 1
        /\ Len(ChunksOf(call[a].seen.docs)) > RAG_TOP_K
        /\ Len(call[a].ctx) = RAG_TOP_K

\* C23: merging the per-document indexes loses no chunk: the combined index of a
\* rebuild holds every chunk of every index merged into it, once, so a search
\* for as many results as the index holds chunks returns each of them.
C23_MergeComplete ==
    \A c \in Procs :
        LET k == call[c].kb
            chunks == ChunksOf(k.comb.docs)
        IN  k.comb # NoStore =>
              /\ Len(chunks) = Cardinality(k.ok) * ChunksPerDoc
              /\ \A q \in Questions :
                    {<<d, j>> : d \in k.ok, j \in 1..ChunksPerDoc}
                        \subseteq Range(TopK(chunks, q, Len(chunks)))

\* A rebuild that merged the indexes of two documents.
C23_Witness ==
    \E c \in Procs :
        /\ call[c].kb.pc = "returned"
        /\ Cardinality(call[c].kb.ok) = 2
        /\ Len(call[c].kb.comb.docs) = 2
        /\ retriever = AsRetriever(call[c].kb.comb, RAG_TOP_K)

Nodes == {"decider", "rag_node", "write_query", "execute_query", "generate_sql_answer"}

\* C24: every invocation of process_question terminates: it runs no node twice,
\* starts at most one rebuild, calls the query tool at most once, and reaches the
\* answer or a failure.
C24_AskTerminates ==
    /\ [](\A a \in Askers :
            LET r == call[a]
            IN  /\ Range(r.trace) \subseteq Nodes
                /\ \A i, j \in 1..Len(r.trace) : r.trace[i] = r.trace[j] => i = j
                /\ r.nRebuild <= 1
                /\ r.nRetrieve <= 1
                /\ Len(r.ran) <= 1
                /\ r.st.question = r.asked)
    /\ \A a \in Askers : (call[a].op = "ask") ~> (call[a].pc \in {"END", "failed"})

\* The longest path is walked to its end.
C24_Witness ==
    \E a \in Askers :
        /\ call[a].pc = "END"
        /\ call[a].trace = <<"decider", "write_query", "execute_query", "generate_sql_answer">>

HasFence(s) == \E i \in 1..Len(s) : StartsWith(Drop(s, i - 1), Fence)

\* C25: the query the cleaning produces from the generator's text holds no code
\* fence, neither starts nor ends with whitespace, and is left as it is by a second
\* cleaning.
C25_CleanedQuery ==
    \A a \in Askers :
        LET query == call[a].st.sql_query
        IN  call[a].pc = "execute_query" =>
              /\ ~HasFence(query)
              /\ query # <<>> => Head(query) \notin Whitespace /\ Last(query) \notin Whitespace
              /\ CleanSqlQuery(query) = query

\* C26: a rebuild on a service that holds a retriever, which finds no processed
\* document or loads no index, leaves that retriever as it is: the service stays
\* ready and later retrievals use the old combined index.
C26_RetrieverKept ==
    [][\A c \in Procs :
          (/\ call[c].kb.pc \in {"list", "loop"}
           /\ call'[c].kb.pc = "returned"
           /\ call'[c].kb.comb = NoStore
           /\ retriever # NoRetriever)
          => /\ retriever' = retriever
             /\ call'[c].kb.result = retriever]_vars

\* A rebuild that listed documents and loaded none has returned, and the retriever
\* of an earlier rebuild is still there.
C26_Witness ==
    \E c \in Procs :
        /\ call[c].kb.pc = "returned"
        /\ call[c].kb.comb = NoStore
        /\ call[c].kb.skipped # {}
        /\ retriever # NoRetriever
        /\ call[c].kb.result = retriever

StateFields == {"question", "context", "sql_query", "result", "answer", "decision"}

\* The field of the pipeline state a node writes.
OwnField(node) ==
    CASE node = "decider" -> "decision"
      [] node = "rag_node" -> "answer"
      [] node = "write_query" -> "sql_query"
      [] node = "execute_query" -> "result"
      [] node = "generate_sql_answer" -> "answer"
      [] OTHER -> "none"

\* C27: no step changes the question, and a step writes its own field of the
\* pipeline state only: at the end of the rag path the query and the raw result are
\* empty, at the end of the sql path the context is empty, and the decision is
\* written by the router, once.
C27_StepsWriteOwnField ==
    /\ [](\A a \in Askers :
            LET r == call[a]
            IN  r.op = "ask" =>
                  /\ r.st.question = r.asked
                  /\ (r.pc = "END" /\ r.st.decision = RagLabel) =>
                        r.st.sql_query = <<>> /\ r.st.result = ""
                  /\ (r.pc = "END" /\ r.st.decision = SqlLabel) => r.st.context = <<>>)
    /\ [][\A a \in Askers :
            (call[a].op = "ask" /\ call'[a].op = "ask") =>
                \A f \in StateFields :
                    call'[a].st[f] # call[a].st[f] =>
                        /\ f = OwnField(call[a].pc)
                        /\ f = "decision" => call[a].st.decision = <<>>]_vars

\* The rag path has ended: chunks were retrieved, and the state holds the answer
\* and nothing of the sql path.
C27_Witness ==
    \E a \in Askers :
        /\ call[a].pc = "END"
        /\ call[a].st.decision = RagLabel
        /\ call[a].st.answer = "a1"
        /\ call[a].ctx # <<>>
        /\ call[a].st.context = <<>>
        /\ call[a].st.sql_query = <<>>

C29_BrandChangeVisible ==
    ub.get.pc = "done" => ub.get.got = ub.assoc

\* C30: add_message for a user_brand_id without a user-brand association fails
\* with NotFoundError and changes nothing: no message is inserted, no cache entry
\* is deleted and no last message is set.
C30_UnassociatedAddRejected ==
    (msg.add.pc = "raised" /\ msg.add.user_brand_id # StoredUserBrand) =>
        /\ msg.add.err = "NotFoundError"
        /\ Effects(msg) = msg.add.before

====
